---- MODULE Spec2Model ----
(***************************************************************************)
(* A model of examples/ghmm_em.py: EM for a hidden Markov model whose      *)
(* emissions come from an exponential family.                              *)
(*                                                                         *)
(* Numbers.  Real numbers are exact rationals [n, d] in lowest terms with  *)
(* d > 0; NaN is the one value with d = 0.  A number kept in log space by  *)
(* the code (log_pi, log_A, log_alpha) is represented by its exponential,  *)
(* so that log-space "+" is "*" and logsumexp is a sum: log is injective,  *)
(* so two log-space results are equal exactly when their exponentials are. *)
(* exp is taken to base 2 (Exp2), which keeps every value rational.        *)
(*                                                                         *)
(* Language.  The file is Python 2 (line 1, line 42, and map() used as a   *)
(* list at lines 104, 110 and 124).  Where Python 3 would behave in a      *)
(* different way on the same text (map, unbound methods) the interpreter   *)
(* is the state variable py.                                               *)
(***************************************************************************)
EXTENDS Integers, Sequences, FiniteSets, TLC

VARIABLES
    pc,              \* control position of the call being modelled
    py,              \* Python major version running the file: 2 or 3
    arg,             \* the arguments of a call of normalize, same or logZ
    ret,             \* the value the outermost call returned
    err,             \* the exception that left the outermost call, "" if none
    log,             \* the calls made so far, in order (observation only)
    f,               \* fixed_point: the update function, a pure function
    x0,              \* fixed_point: the previous iterate (EM: the parameters)
    x1,              \* fixed_point: the newest iterate
    hist,            \* fixed_point: every iterate so far (observation only)
    obs,             \* EM: the exponential family passed as obs
    data,            \* the sequence of observations
    errstate,        \* numpy's setting for invalid operations: "warn" or "raise"
    etas,            \* E_step: the natural parameters built so far
    expected_stats,  \* EM_update: the value E_step returned
    natural_params,  \* hmm_log_partition_function: its first argument
    log_alpha,       \* hmm_log_partition_function: the forward message
    pos              \* hmm_log_partition_function: observations consumed

callVars == <<arg, ret>>
fpVars == <<f, x0, x1, hist>>
emVars == <<obs, errstate, etas, expected_stats>>
hmmVars == <<natural_params, log_alpha, pos>>
vars == <<pc, py, err, log, data, callVars, fpVars, emVars, hmmVars>>

(***************************************************************************)
(* Bounds of the model.                                                    *)
(***************************************************************************)
MaxEntry == 2      \* array entries of normalize's input range over -1..MaxEntry
MaxCols == 2       \* longest row given to normalize
MaxArr == 2        \* longest array given to same
MaxTup == 2        \* longest tuple given to same
MaxItems == 5      \* most items of a sequence passed to logZ
MaxArgs == 2       \* most positional arguments of a call of logZ
MaxVal == 2        \* iterates of fixed_point hold an entry in 0..MaxVal
MaxIter == 5       \* updates of fixed_point the model follows
IterationBudget == 3   \* the iteration budget the claim about NonConvergence supposes
MaxT == 4          \* longest data sequence given to hmm_log_partition_function
Den == 2           \* probabilities are multiples of 1/Den
MaxTEM == 2        \* longest data sequence given to EM

\* The number of hidden states (line 135).
N == 2

(***************************************************************************)
(* Exact rational arithmetic.                                              *)
(***************************************************************************)
Abs(x) == IF x < 0 THEN -x ELSE x

RECURSIVE Gcd(_, _)
Gcd(a, b) == IF b = 0 THEN a ELSE Gcd(b, a % b)

NaN == [n |-> 0, d |-> 0]

Q(n, d) ==
    IF d = 0 THEN NaN
    ELSE LET g == Gcd(Abs(n), Abs(d))
             s == IF d < 0 THEN -1 ELSE 1
         IN  [n |-> (s * n) \div g, d |-> (s * d) \div g]

QInt(k) == [n |-> k, d |-> 1]
IsNaN(x) == x.d = 0
\* Sums and products cancel common factors first, to keep the numbers small.
QAdd(x, y) ==
    IF IsNaN(x) \/ IsNaN(y) THEN NaN
    ELSE LET g == Gcd(x.d, y.d)
         IN  Q(x.n * (y.d \div g) + y.n * (x.d \div g), (x.d \div g) * y.d)
QMul(x, y) ==
    IF IsNaN(x) \/ IsNaN(y) THEN NaN
    ELSE LET a == Q(x.n, y.d)
             b == Q(y.n, x.d)
         IN  Q(a.n * b.n, a.d * b.d)
QNeg(x) == [n |-> -x.n, d |-> x.d]
\* x / y; the callers below never divide by zero (0/0 is NaN).
QDiv(x, y) ==
    IF IsNaN(x) \/ IsNaN(y) \/ y.n = 0 THEN NaN ELSE QMul(x, Q(y.d, y.n))
\* x > 0; every comparison with NaN is false.
QPos(x) == ~IsNaN(x) /\ x.n > 0

RECURSIVE QSum(_)
QSum(s) == IF s = <<>> THEN QInt(0) ELSE QAdd(s[1], QSum(Tail(s)))

(***************************************************************************)
(* normalize (lines 26-29).  A vector is [vec |-> row]; a matrix is        *)
(* [mat |-> sequence of rows].  a.sum(-1, keepdims=True) is the sum of     *)
(* each row, kept as a column so that the division is row by row.          *)
(***************************************************************************)
replace_zeros_gt1(s) == IF QPos(QAdd(s, QInt(-1))) THEN s ELSE QInt(1)

\* np.where(a > 0., a, 1.)
replace_zeros(s) == IF QPos(s) THEN s ELSE QInt(1)

normalize_row(row) ==
    LET den == replace_zeros(QSum(row))
    IN  [i \in DOMAIN row |-> QDiv(row[i], den)]

normalize(a) ==
    IF "vec" \in DOMAIN a
    THEN [vec |-> normalize_row(a.vec)]
    ELSE [mat |-> [r \in DOMAIN a.mat |-> normalize_row(a.mat[r])]]

\* The rows of an array, for stating properties row by row.
Rows(a) == IF "vec" \in DOMAIN a THEN <<a.vec>> ELSE a.mat

(***************************************************************************)
(* Specification SpecNormalize: normalize applied to small vectors, and to  *)
(* small matrices of N rows.                                               *)
(***************************************************************************)
Entries == {QInt(n) : n \in -1 .. MaxEntry} \cup {Q(1, 2)}

NoValue == [none |-> 0]

\* The variables of the parts of the program a specification does not run.
NoCall == arg = NoValue /\ ret = NoValue
NoFixedPoint == f = NoValue /\ x0 = NoValue /\ x1 = NoValue /\ hist = <<>>
NoEM == obs = "" /\ errstate = "warn" /\ etas = <<>> /\ expected_stats = NoValue
NoHMM == natural_params = NoValue /\ log_alpha = NoValue /\ pos = 0

InitNormalize ==
    /\ pc = "call"
    /\ py = 2
    /\ \E c \in 1 .. MaxCols :
          \/ \E v \in [1 .. c -> Entries] : arg = [vec |-> v]
          \/ \E m \in [1 .. N -> [1 .. c -> Entries]] : arg = [mat |-> m]
    /\ ret = NoValue
    /\ err = "" /\ log = <<>> /\ data = <<>>
    /\ NoFixedPoint /\ NoEM /\ NoHMM

NormalizeCall ==
    /\ pc = "call"
    /\ ret' = normalize(arg)
    /\ pc' = "returned"
    /\ log' = Append(log, "normalize")
    /\ UNCHANGED <<py, arg, err, data, fpVars, emVars, hmmVars>>

NextNormalize == NormalizeCall

SpecNormalize == InitNormalize /\ [][NextNormalize]_vars

\* C1 as claimed: a row with a positive sum is normalized to sum 1, and a row
\* whose sum is <= 0 becomes the uniform distribution (every entry 1/length).
C1_Original ==
    pc = "returned" =>
        \A r \in DOMAIN Rows(arg) :
            LET in == Rows(arg)[r]
                out == Rows(ret)[r]
            IN  IF QPos(QSum(in))
                THEN QSum(out) = QInt(1)
                ELSE \A i \in DOMAIN out : out[i] = Q(1, Len(in))

\* C1 (amended): a row of normalize's result sums to 1 when the input row has a
\* positive sum; a row whose sum is <= 0 is returned as it is (divided by 1),
\* not replaced by the uniform distribution.
C1_Normalize ==
    pc = "returned" =>
        /\ DOMAIN Rows(ret) = DOMAIN Rows(arg)
        /\ \A r \in DOMAIN Rows(arg) :
            LET in == Rows(arg)[r]
                out == Rows(ret)[r]
            IN  IF QPos(QSum(in))
                THEN QSum(out) = QInt(1)
                ELSE out = in

\* A matrix with one row of positive sum and one row of sum <= 0 was normalized.
C1_Witness ==
    /\ pc = "returned"
    /\ "mat" \in DOMAIN arg
    /\ QPos(QSum(arg.mat[1]))
    /\ ~QPos(QSum(arg.mat[2]))
    /\ arg.mat[2] # <<QInt(0), QInt(0)>>
    /\ Len(arg.mat[1]) = 2

(***************************************************************************)
(* Values compared by same (lines 20-23): an ndarray is [arr |-> entries], *)
(* a tuple or list is [tup |-> elements], a Python or numpy scalar is      *)
(* [scal |-> x], and None is [none |-> 0].  Entries are integers counted   *)
(* in units of numpy's default atol (1e-8), so that np.allclose's test     *)
(* |x - y| <= atol + rtol * |y| with rtol = 1e-5 is exact in integers.     *)
(* A call ends in "True", "False" or "Raises".                             *)
(***************************************************************************)
ATol == 1
RTolInv == 100000

\* |x - y| <= atol + rtol * |y|; the left side is an integer, so the right side
\* may be rounded down.
isclose(x, y) == Abs(x - y) <= ATol + Abs(y) \div RTolInv

IsArr(v) == "arr" \in DOMAIN v
IsTup(v) == "tup" \in DOMAIN v
IsScal(v) == "scal" \in DOMAIN v
IsNone(v) == "none" \in DOMAIN v

Bool(b) == IF b THEN "True" ELSE "False"

\* numpy broadcasting of shapes (la,) and (lb,): the common length, or -1.
Broadcast(la, lb) ==
    IF la = lb THEN la ELSE IF la = 1 THEN lb ELSE IF lb = 1 THEN la ELSE -1

At(s, i) == IF Len(s) = 1 THEN s[1] ELSE s[i]

\* np.allclose of two one-dimensional arrays given by their entries.
allclose_1d(x, y) ==
    LET n == Broadcast(Len(x), Len(y))
    IN  IF n < 0 THEN "Raises"
        ELSE Bool(\A i \in 1 .. n : isclose(At(x, i), At(y, i)))

\* np.allclose(a, b), a an ndarray: b goes through np.asarray.  A scalar
\* broadcasts; a tuple of scalars is a vector; a tuple of arrays of one length
\* is a matrix, against which a broadcasts row by row; None and ragged tuples
\* give an object array, on which the comparison raises.
allclose(a, b) ==
    IF IsArr(b) THEN allclose_1d(a.arr, b.arr)
    ELSE IF IsScal(b) THEN allclose_1d(a.arr, <<b.scal>>)
    ELSE IF IsNone(b) THEN "Raises"
    ELSE IF \A i \in DOMAIN b.tup : IsScal(b.tup[i])
    THEN allclose_1d(a.arr, [i \in DOMAIN b.tup |-> b.tup[i].scal])
    ELSE IF /\ \A i \in DOMAIN b.tup : IsArr(b.tup[i])
            /\ \A i \in DOMAIN b.tup : Len(b.tup[i].arr) = Len(b.tup[1].arr)
    THEN IF \E i \in DOMAIN b.tup : allclose_1d(a.arr, b.tup[i].arr) = "Raises"
         THEN "Raises"
         ELSE Bool(\A i \in DOMAIN b.tup : allclose_1d(a.arr, b.tup[i].arr) = "True")
    ELSE "Raises"

\* What iterating a value yields: the elements of a tuple, the entries of an
\* array as numpy scalars.  Scalars and None cannot be iterated.
Iterable(v) == IsTup(v) \/ IsArr(v)
Items(v) == IF IsTup(v) THEN v.tup ELSE [i \in DOMAIN v.arr |-> [scal |-> v.arr[i]]]

Max(x, y) == IF x >= y THEN x ELSE y
Min(x, y) == IF x <= y THEN x ELSE y

\* map(f, a, b) pairs the items up: Python 2 pads the shorter sequence with
\* None, Python 3 stops at the end of the shorter one.
Padded(s, n) == [i \in 1 .. n |-> IF i <= Len(s) THEN s[i] ELSE [none |-> 0]]

\* all(...) over the results of the calls.  Python 2's map makes every call
\* before all() looks at any result, so a call that raises is seen even after
\* a False; Python 3's map is lazy and all() stops at the first False.
all_eager(rs) ==
    IF \E i \in DOMAIN rs : rs[i] = "Raises" THEN "Raises"
    ELSE Bool(\A i \in DOMAIN rs : rs[i] = "True")

RECURSIVE all_lazy(_)
all_lazy(rs) ==
    IF rs = <<>> THEN "True"
    ELSE IF rs[1] = "True" THEN all_lazy(Tail(rs))
    ELSE rs[1]

RECURSIVE same_any(_, _)
same_any(a, b) ==
    IF IsArr(a) THEN allclose(a, b)
    ELSE IF ~Iterable(a) \/ ~Iterable(b) THEN "Raises"
    ELSE LET n == IF py = 2 THEN Max(Len(Items(a)), Len(Items(b)))
                  ELSE Min(Len(Items(a)), Len(Items(b)))
             rs == [i \in 1 .. n |->
                       same_any(Padded(Items(a), n)[i], Padded(Items(b), n)[i])]
         IN  IF \E i \in DOMAIN rs : rs[i] = "Raises" THEN "Raises"
             ELSE Bool(\E i \in DOMAIN rs : rs[i] = "True")

RECURSIVE same(_, _)
same(a, b) ==
    IF IsArr(a) THEN allclose(a, b)
    ELSE IF ~Iterable(a) \/ ~Iterable(b) THEN "Raises"
    ELSE LET n == IF py = 2 THEN Max(Len(Items(a)), Len(Items(b)))
                  ELSE Min(Len(Items(a)), Len(Items(b)))
             rs == [i \in 1 .. n |->
                       same(Padded(Items(a), n)[i], Padded(Items(b), n)[i])]
         IN  IF py = 2 THEN all_eager(rs) ELSE all_lazy(rs)

(***************************************************************************)
(* Specification SpecSame: same applied to pairs of small nested values.   *)
(***************************************************************************)
LeafVals == {0, 99999, 100001}
TupsOver(S, n) == UNION {{[tup |-> t] : t \in [1 .. k -> S]} : k \in 0 .. n}
Arrays == UNION {{[arr |-> e] : e \in [1 .. k -> LeafVals]} : k \in 1 .. MaxArr}
Arrays1 == {[arr |-> <<x>>] : x \in LeafVals}
Elems == Arrays1 \cup {[scal |-> 0]} \cup TupsOver(Arrays1, 1)
SameValues == Arrays \cup {[scal |-> 0]} \cup TupsOver(Elems, MaxTup)

InitSame ==
    /\ pc = "call"
    /\ py \in {2, 3}
    /\ arg \in SameValues \X SameValues
    /\ ret = NoValue
    /\ err = "" /\ log = <<>> /\ data = <<>>
    /\ NoFixedPoint /\ NoEM /\ NoHMM

IsError(r) == r \in {"Raises", "TypeError", "ValueError", "NameError",
                      "LinAlgError", "FloatingPointError", "NotImplementedError"}

SameCall ==
    /\ pc = "call"
    /\ LET r == same(arg[1], arg[2])
       IN  IF IsError(r)
           THEN pc' = "raised" /\ err' = r /\ ret' = ret
           ELSE pc' = "returned" /\ ret' = r /\ err' = err
    /\ log' = Append(log, "same")
    /\ UNCHANGED <<py, arg, data, fpVars, emVars, hmmVars>>

NextSame == SameCall

SpecSame == InitSame /\ [][NextSame]_vars

\* Two values have the same nested structure: tuples of one length whose
\* elements have the same structure, arrays of one shape.
RECURSIVE SameShape(_, _)
SameShape(a, b) ==
    IF IsArr(a) THEN IsArr(b) /\ Len(a.arr) = Len(b.arr)
    ELSE IF IsTup(a)
    THEN /\ IsTup(b)
         /\ Len(a.tup) = Len(b.tup)
         /\ \A i \in DOMAIN a.tup : SameShape(a.tup[i], b.tup[i])
    ELSE IsScal(a) /\ IsScal(b)

\* Every pair of corresponding leaves of two values of one structure is within
\* the tolerance, entry by entry.
RECURSIVE LeavesClose(_, _)
LeavesClose(a, b) ==
    IF IsArr(a) THEN \A i \in DOMAIN a.arr : isclose(a.arr[i], b.arr[i])
    ELSE IF IsTup(a) THEN \A i \in DOMAIN a.tup : LeavesClose(a.tup[i], b.tup[i])
    ELSE isclose(a.scal, b.scal)

\* A value whose leaves are all arrays.
RECURSIVE ArrayLeaves(_)
ArrayLeaves(a) ==
    IF IsArr(a) THEN TRUE
    ELSE IF IsTup(a) THEN \A i \in DOMAIN a.tup : ArrayLeaves(a.tup[i])
    ELSE FALSE

\* The outcome of the call of same: what it returned, or that it raised.
SameOutcome == IF pc = "raised" THEN err ELSE ret

\* C10 as claimed: same returns true exactly when the two values have the same
\* nested structure and all corresponding leaves are close, and it returns
\* false, without raising, when one tuple has more elements than the other.
C10_Original ==
    pc # "call" =>
        /\ (SameShape(arg[1], arg[2]) /\ ArrayLeaves(arg[1]))
              => SameOutcome = Bool(LeavesClose(arg[1], arg[2]))
        /\ (IsTup(arg[1]) /\ IsTup(arg[2]) /\ Len(arg[1].tup) # Len(arg[2].tup))
              => SameOutcome = "False"

\* C10 (amended): for two values of the same nested structure whose leaves are
\* arrays, same returns without raising, and returns true exactly when every
\* pair of corresponding leaves is within the tolerance; a tuple with more
\* elements than the other does not make it return false: under Python 2 the
\* call raises, under Python 3 only the common prefix is compared.
C10_Same ==
    pc # "call" =>
        /\ (SameShape(arg[1], arg[2]) /\ ArrayLeaves(arg[1]))
              => SameOutcome = Bool(LeavesClose(arg[1], arg[2]))
        /\ (IsTup(arg[1]) /\ IsTup(arg[2]) /\ Len(arg[1].tup) # Len(arg[2].tup))
              => IF py = 2 THEN SameOutcome = "Raises"
                 ELSE LET n == Min(Len(arg[1].tup), Len(arg[2].tup))
                      IN  SameOutcome = same([tup |-> SubSeq(arg[1].tup, 1, n)],
                                             [tup |-> SubSeq(arg[2].tup, 1, n)])

\* same returned "True" on two nested tuples of the same structure that are
\* not equal, and so agree only within the tolerance.
C10_Witness ==
    /\ pc = "returned"
    /\ ret = "True"
    /\ IsTup(arg[1]) /\ Len(arg[1].tup) = 2 /\ IsTup(arg[1].tup[1])
    /\ SameShape(arg[1], arg[2]) /\ ArrayLeaves(arg[1])
    /\ arg[1] # arg[2]
(***************************************************************************)
(* NormalInverseWishart.logZ (lines 88-90).  The method is written without *)
(* self and without @staticmethod.  An argument is a sequence of k items   *)
(* [seq |-> k], a value that cannot be unpacked [scal |-> 0], or an        *)
(* instance of the class [inst |-> "NormalInverseWishart"].                *)
(***************************************************************************)
NIWInstance == [inst |-> "NormalInverseWishart"]

\* The function body, once Python has bound the positional arguments a to the
\* single parameter eta: line 89 unpacks eta into four names, line 90 raises.
NIW_logZ_body(a) ==
    IF Len(a) # 1 THEN "TypeError"
    ELSE IF "seq" \notin DOMAIN a[1] THEN "TypeError"
    ELSE IF a[1].seq # 4 THEN "ValueError"
    ELSE "NotImplementedError"

\* A call on an instance passes the instance as the first argument.  A call
\* on the class is, in Python 2, a call of an unbound method, which wants an
\* instance first; in Python 3 it is a call of the plain function.
NIW_logZ(recv, a) ==
    IF recv = "instance" THEN NIW_logZ_body(<<NIWInstance>> \o a)
    ELSE IF py = 2 /\ (a = <<>> \/ a[1] # NIWInstance) THEN "TypeError"
    ELSE NIW_logZ_body(a)

(***************************************************************************)
(* Specification SpecNIW: every small call of NormalInverseWishart.logZ.   *)
(***************************************************************************)
LogZArgVals == {[seq |-> k] : k \in 0 .. MaxItems} \cup {[scal |-> 0], NIWInstance}

InitNIW ==
    /\ pc = "call"
    /\ py \in {2, 3}
    /\ arg \in [recv : {"class", "instance"},
                args : UNION {[1 .. k -> LogZArgVals] : k \in 0 .. MaxArgs}]
    /\ ret = NoValue
    /\ err = "" /\ log = <<>> /\ data = <<>>
    /\ NoFixedPoint /\ NoEM /\ NoHMM

LogZCall ==
    /\ pc = "call"
    /\ err' = NIW_logZ(arg.recv, arg.args)
    /\ pc' = "raised"
    /\ log' = Append(log, "logZ")
    /\ UNCHANGED <<py, arg, ret, data, fpVars, emVars, hmmVars>>

NextNIW == LogZCall

SpecNIW == InitNIW /\ [][NextNIW]_vars

\* C7: every call of logZ on the NormalInverseWishart family, on the class or on
\* an instance and for every argument, ends in NotImplementedError and in no
\* other error.
C7_Original == pc = "raised" => err = "NotImplementedError"
(***************************************************************************)
(* fixed_point (lines 13-17).  The update f is any pure function on a      *)
(* small set of iterates, each a tuple holding one array as a parameter    *)
(* tuple does, or the empty tuple; f may also raise.  A run that goes on   *)
(* is followed for MaxIter updates.                                        *)
(***************************************************************************)
Iterate(v) == [tup |-> <<[arr |-> <<v>>]>>]
Iterates == {Iterate(v) : v \in 0 .. MaxVal} \cup {[tup |-> <<>>]}
FRaises == [exc |-> "ValueError"]

InitFP ==
    /\ pc = "start"
    /\ py \in {2, 3}
    /\ f \in [Iterates -> Iterates \cup {FRaises}]
    /\ x0 \in Iterates
    /\ x1 = NoValue
    /\ hist = <<x0>>
    /\ err = "" /\ log = <<>> /\ data = <<>>
    /\ NoCall /\ NoEM /\ NoHMM

\* The tail of line 16 with the update applied to the previous iterate.
FPBody_stale ==
    /\ pc = "body"
    /\ Len(hist) <= MaxIter
    /\ log' = Append(log, "f")
    /\ IF f[x0] = FRaises
       THEN pc' = "raised" /\ err' = FRaises.exc /\ UNCHANGED <<x0, x1, hist>>
       ELSE /\ x0' = x1
            /\ x1' = f[x0]
            /\ hist' = Append(hist, f[x0])
            /\ pc' = "while"
            /\ err' = err
    /\ UNCHANGED <<py, data, f, callVars, emVars, hmmVars>>

\* Line 15 with an iteration budget, and line 17.
FPTest_budget ==
    /\ pc = "while"
    /\ log' = Append(log, "same")
    /\ LET r == same(x0, x1)
       IN  IF r = "Raises"
           THEN pc' = "raised" /\ err' = "TypeError" /\ ret' = ret
           ELSE IF r = "True"
           THEN pc' = "returned" /\ ret' = x1 /\ err' = err
           ELSE IF Len(hist) - 1 >= IterationBudget
           THEN pc' = "raised" /\ err' = "NonConvergence" /\ ret' = ret
           ELSE pc' = "body" /\ ret' = ret /\ err' = err
    /\ UNCHANGED <<py, data, arg, fpVars, emVars, hmmVars>>

\* Line 15, and line 17 returning the previous iterate.
FPTest_old ==
    /\ pc = "while"
    /\ log' = Append(log, "same")
    /\ LET r == same(x0, x1)
       IN  IF r = "Raises"
           THEN pc' = "raised" /\ err' = "TypeError" /\ ret' = ret
           ELSE IF r = "True"
           THEN pc' = "returned" /\ ret' = x0 /\ err' = err
           ELSE pc' = "body" /\ ret' = ret /\ err' = err
    /\ UNCHANGED <<py, data, arg, fpVars, emVars, hmmVars>>

\* Line 14: x1 = f(x0).
FPCall ==
    /\ pc = "start"
    /\ log' = Append(log, "f")
    /\ IF f[x0] = FRaises
       THEN pc' = "raised" /\ err' = FRaises.exc /\ UNCHANGED <<x1, hist>>
       ELSE /\ x1' = f[x0]
            /\ hist' = Append(hist, f[x0])
            /\ pc' = "while"
            /\ err' = err
    /\ UNCHANGED <<py, data, f, x0, callVars, emVars, hmmVars>>

\* Line 15: while not same(x0, x1); when same holds, line 17: return x1.
FPTest ==
    /\ pc = "while"
    /\ log' = Append(log, "same")
    /\ LET r == same(x0, x1)
       IN  IF r = "Raises"
           THEN pc' = "raised" /\ err' = "TypeError" /\ ret' = ret
           ELSE IF r = "True"
           THEN pc' = "returned" /\ ret' = x1 /\ err' = err
           ELSE pc' = "body" /\ ret' = ret /\ err' = err
    /\ UNCHANGED <<py, data, arg, fpVars, emVars, hmmVars>>

\* Line 16: x0, x1 = x1, f(x1).
FPBody ==
    /\ pc = "body"
    /\ Len(hist) <= MaxIter
    /\ log' = Append(log, "f")
    /\ IF f[x1] = FRaises
       THEN pc' = "raised" /\ err' = FRaises.exc /\ UNCHANGED <<x0, x1, hist>>
       ELSE /\ x0' = x1
            /\ x1' = f[x1]
            /\ hist' = Append(hist, f[x1])
            /\ pc' = "while"
            /\ err' = err
    /\ UNCHANGED <<py, data, f, callVars, emVars, hmmVars>>

NextFP == FPCall \/ FPTest \/ FPBody

SpecFP == InitFP /\ [][NextFP]_vars

\* The number of updates applied and of top-level same checks made.
Updates == Cardinality({i \in DOMAIN log : log[i] = "f"})
Checks == Cardinality({i \in DOMAIN log : log[i] = "same"})

\* C4 as claimed: the value r that fixed_point returns is a fixed point within
\* tolerance: same(r, f(r)) holds.
C4_Original ==
    pc = "returned" => (f[ret] # FRaises /\ same(ret, f[ret]) = "True")

\* C4 (amended): the value r that fixed_point returns is the update of the
\* iterate p before it, r = f(p), and it is p that is a fixed point within
\* tolerance: same(p, f(p)) holds; same(r, f(r)) need not.
C4_FixedPoint ==
    pc = "returned" =>
        LET p == hist[Len(hist) - 1]
        IN  /\ f[p] # FRaises
            /\ ret = f[p]
            /\ same(p, f[p]) = "True"

\* fixed_point returned after going round the loop, with a result that is not
\* the start value.
C4_Witness ==
    /\ pc = "returned"
    /\ Len(hist) >= 3
    /\ ret # hist[1]
    /\ ret # hist[Len(hist) - 1]

\* C6 as claimed: once the loop has gone past an iteration budget without same
\* holding, the run has ended in a NonConvergence condition.
C6_Original ==
    Updates > IterationBudget => (pc = "raised" /\ err = "NonConvergence")

\* C6 (amended): fixed_point has no iteration budget and no NonConvergence
\* condition: whenever same does not hold of the last two iterates it applies
\* the update again, however many updates were made; a run ends only by
\* returning when same holds or by an error of the update or of same.
C6_NoBudget ==
    /\ [][(pc = "while" /\ same(x0, x1) = "False") => pc' = "body"]_vars
    /\ [][(pc = "while" /\ pc' = "returned") => same(x0, x1) = "True"]_vars
    /\ [](pc = "raised" => err \in {FRaises.exc, "TypeError"})

\* The loop is past the budget and still going.
C6_Witness ==
    /\ pc = "body"
    /\ Updates > IterationBudget

\* C9: updates and top-level same checks alternate, starting with an update;
\* every check is on the pair (previous iterate, newest iterate); after each
\* evaluation of the loop condition as many checks as updates were made; and
\* the value returned is the newest iterate of the first pair of successive
\* iterates for which same holds.
C9_Alternation ==
    /\ \A i \in DOMAIN log : log[i] = IF i % 2 = 1 THEN "f" ELSE "same"
    /\ pc = "while" => (Updates = Checks + 1 /\ Len(hist) = Updates + 1)
    /\ pc \in {"body", "returned"} => Updates = Checks
    /\ pc \in {"while", "body", "returned"} =>
          (x1 = hist[Len(hist)] /\ x0 = hist[Len(hist) - 1])
    /\ pc = "returned" =>
          /\ ret = hist[Len(hist)]
          /\ same(hist[Len(hist) - 1], hist[Len(hist)]) = "True"
          /\ \A i \in 1 .. Len(hist) - 2 : same(hist[i], hist[i + 1]) # "True"

\* fixed_point returned after at least two updates and two checks.
C9_Witness ==
    /\ pc = "returned"
    /\ Checks >= 2
    /\ Updates = Checks
(***************************************************************************)
(* Log space.  [lg |-> w] is the log-space number log2(w): np.log gives    *)
(* Lg, adding two log-space numbers multiplies the weights, logsumexp adds *)
(* them, and a real number x stands in log space for the weight 2^x.       *)
(***************************************************************************)
RECURSIVE Pow2(_)
Pow2(k) == IF k = 0 THEN 1 ELSE 2 * Pow2(k - 1)

\* 2^x for an integer x; no other exponent is ever asked for.
Exp2(x) ==
    IF IsNaN(x) THEN NaN
    ELSE IF x.d = 1 THEN (IF x.n >= 0 THEN Q(Pow2(x.n), 1) ELSE Q(1, Pow2(-x.n)))
    ELSE CHOOSE v \in {} : TRUE

Lg(w) == [lg |-> w]
LgOfReal(x) == Lg(Exp2(x))
LgAdd(a, b) == Lg(QMul(a.lg, b.lg))
logsumexp(xs) == Lg(QSum([i \in DOMAIN xs |-> xs[i].lg]))

(***************************************************************************)
(* inner (lines 32-35), Gaussian.statistic (lines 68-70) for observations  *)
(* of dimension 1, and log_likelihoods (lines 121-124).  Line 122 calls    *)
(* the bare name statistic, which the file never binds; it is read here as *)
(* the family's statistic, as section 4.2 of the specification does.       *)
(***************************************************************************)
contract(x, y) == QMul(x, y)
inner(a, b) == QSum([i \in DOMAIN a |-> contract(a[i], b[i])])

statistic(y) == <<QMul(y, y), y>>

log_likelihoods(y, es) ==
    LET stat == statistic(y) \o <<QInt(1)>>
    IN  [k \in DOMAIN es |-> LgOfReal(inner(es[k], stat))]

(***************************************************************************)
(* hmm_log_partition_function (lines 113-119).                             *)
(***************************************************************************)
\* Lines 117-118: one step of the forward recursion; ll is the value of
\* log_likelihoods(y, etas).
forward_step(la, log_A, ll) ==
    [j \in 1 .. N |->
        LgAdd(logsumexp([i \in 1 .. N |-> LgAdd(la[i], log_A[i][j])]), ll[j])]

\* Lines 115-118, for a transition matrix and a log-likelihood vector per
\* observation (the code uses one matrix, and log_likelihoods(y, etas)).
RECURSIVE forward(_, _, _, _)
forward(la, log_As, lls, k) ==
    IF k > Len(lls) THEN la
    ELSE forward(forward_step(la, log_As[k], lls[k]), log_As, lls, k + 1)

hmm_log_partition_function(np, ys) ==
    logsumexp(forward(np.log_pi,
                      [k \in DOMAIN ys |-> np.log_A],
                      [k \in DOMAIN ys |-> log_likelihoods(ys[k], np.etas)],
                      1))

(***************************************************************************)
(* Specification SpecHMM: hmm_log_partition_function run observation by    *)
(* observation on small natural parameters and data.                       *)
(***************************************************************************)
Dists == {d \in [1 .. N -> {Q(k, Den) : k \in 0 .. Den}] : QSum(d) = QInt(1)}
LogOf(d) == [i \in DOMAIN d |-> Lg(d[i])]
EtaSet == {<<QInt(0), QInt(0), QInt(0)>>,
           <<QInt(0), QInt(1), QInt(-1)>>,
           <<QInt(-1), QInt(2), QInt(0)>>}
Ys == {QInt(0), QInt(1)}
DataUpTo(n, S) == UNION {[1 .. k -> S] : k \in 0 .. n}

InitHMM ==
    /\ pc = "start"
    /\ py = 2
    /\ natural_params \in
          [log_pi : {LogOf(d) : d \in Dists},
           log_A : [1 .. N -> {LogOf(d) : d \in Dists}],
           etas : [1 .. N -> EtaSet]]
    /\ data \in DataUpTo(MaxT, Ys)
    /\ log_alpha = NoValue
    /\ pos = 0
    /\ err = "" /\ log = <<>>
    /\ NoCall /\ NoFixedPoint /\ NoEM

\* Lines 114-115: log_alpha = log_pi.
HMMStart ==
    /\ pc = "start"
    /\ log_alpha' = natural_params.log_pi
    /\ pc' = "for"
    /\ UNCHANGED <<py, err, log, data, natural_params, pos, callVars, fpVars, emVars>>

\* Lines 116-118: the body of the loop, for the next observation.
HMMStep ==
    /\ pc = "for"
    /\ pos < Len(data)
    /\ log_alpha' = forward_step(log_alpha, natural_params.log_A,
                                 log_likelihoods(data[pos + 1], natural_params.etas))
    /\ pos' = pos + 1
    /\ UNCHANGED <<pc, py, err, log, data, natural_params, callVars, fpVars, emVars>>

\* Line 119: return logsumexp(log_alpha).
HMMReturn ==
    /\ pc = "for"
    /\ pos = Len(data)
    /\ ret' = logsumexp(log_alpha)
    /\ pc' = "returned"
    /\ UNCHANGED <<py, err, log, data, arg, hmmVars, fpVars, emVars>>

NextHMM == HMMStart \/ HMMStep \/ HMMReturn

SpecHMM == InitHMM /\ [][NextHMM]_vars

\* The probability that the HMM with initial distribution p0, transition
\* matrix tr and emission weights w[t][k] follows the hidden path z.
PathWeight(p0, tr, w, z) ==
    LET RECURSIVE go(_)
        go(k) == IF k > Len(z) THEN QInt(1)
                 ELSE QMul(QMul(IF k = 1 THEN p0[z[1]] ELSE tr[z[k - 1]][z[k]],
                                w[k][z[k]]),
                           go(k + 1))
    IN  go(1)

RECURSIVE SumOver(_, _, _, _, _)
SumOver(paths, p0, tr, w, acc) ==
    IF paths = {} THEN acc
    ELSE LET z == CHOOSE z \in paths : TRUE
         IN  SumOver(paths \ {z}, p0, tr, w, QAdd(acc, PathWeight(p0, tr, w, z)))

\* The sum over all N^T hidden paths z_1..z_T of
\* pi[z_1] * prod A[z_(t-1), z_t] * prod exp(ll_t[z_t]).
BruteForce(np, ys) ==
    LET p0 == [i \in 1 .. N |-> np.log_pi[i].lg]
        tr == [i \in 1 .. N |-> [j \in 1 .. N |-> np.log_A[i][j].lg]]
        w == [k \in DOMAIN ys |->
                 LET ll == log_likelihoods(ys[k], np.etas)
                 IN  [i \in 1 .. N |-> ll[i].lg]]
    IN  SumOver([1 .. Len(ys) -> 1 .. N], p0, tr, w, QInt(0))

\* C2: for N = 2 and every data sequence of length T <= 4, the value returned by
\* hmm_log_partition_function is the log of the sum, over all N^T hidden paths,
\* of pi[z_1] * prod A[z_(t-1), z_t] * prod exp(ll_t[z_t]), the first hidden
\* state being drawn from pi.
C2_Original ==
    pc = "returned" => ret = Lg(BruteForce(natural_params, data))
(***************************************************************************)
(* The exponential families (lines 60-90), for observations of dimension   *)
(* 1: theta is [mu, Sigma].  A call gives [val |-> v] or [raise |-> e].    *)
(***************************************************************************)
Val(v) == [val |-> v]
Raise(e) == [raise |-> e]
Raised(r) == "raise" \in DOMAIN r

\* log2 of a power of two; no other logarithm is ever asked for.
Log2(x) == QInt(CHOOSE k \in -8 .. 8 : Exp2(QInt(k)) = x)

\* Gaussian.eta (lines 62-66): np.linalg.inv raises on a singular Sigma.
Gaussian_eta(theta) ==
    IF theta.Sigma.n = 0 THEN Raise("LinAlgError")
    ELSE LET J == QDiv(QInt(1), theta.Sigma)
             h == QMul(J, theta.mu)
         IN  Val(<<QMul(Q(-1, 2), J), h>>)

\* Gaussian.logZ (lines 73-76): np.linalg.solve raises on a singular J; the
\* log of a negative determinant is an invalid operation, which gives NaN or
\* raises FloatingPointError as numpy's error state says (line 131).
Gaussian_logZ(eta) ==
    LET J == QMul(QInt(-2), eta[1])
        h == eta[2]
    IN  IF J.n = 0 THEN Raise("LinAlgError")
        ELSE IF J.n < 0 /\ errstate = "raise" THEN Raise("FloatingPointError")
        ELSE Val(QAdd(QMul(Q(-1, 2), QMul(h, QDiv(h, J))),
                      QMul(Q(1, 2), IF J.n < 0 THEN NaN ELSE Log2(J))))

\* obs.eta(theta) and obs.logZ(eta) for obs a class.  The methods of
\* NormalInverseWishart are plain functions in the class body (lines 80, 88):
\* called on the class in Python 2 they are unbound methods and want an
\* instance first.
obs_eta(theta) ==
    IF obs = "Gaussian" THEN Gaussian_eta(theta) ELSE Raise("TypeError")

obs_logZ(eta) ==
    IF obs = "Gaussian" THEN Gaussian_logZ(eta) ELSE Raise("TypeError")

(***************************************************************************)
(* grad(hmm_log_partition_function) (line 105).  The partition function Z  *)
(* is linear in pi, and a sum of products holding one entry of A and one   *)
(* likelihood per observation, so the derivative of log Z by the log of an *)
(* entry is the part of Z that goes through that entry, over Z: the part   *)
(* is Z computed with the other entries at log 0.                          *)
(***************************************************************************)
LgZero == Lg(QInt(0))
MaskVec(v, i) == [j \in DOMAIN v |-> IF j = i THEN v[j] ELSE LgZero]
MaskMat(m, i, j) ==
    [r \in DOMAIN m |-> [c \in DOMAIN m[r] |-> IF r = i /\ c = j THEN m[r][c] ELSE LgZero]]

grad_hmm_log_partition_function(np, ys) ==
    LET T == Len(ys)
        lls == [k \in 1 .. T |-> log_likelihoods(ys[k], np.etas)]
        As == [k \in 1 .. T |-> np.log_A]
        Z == logsumexp(forward(np.log_pi, As, lls, 1)).lg
        Zpi(i) == logsumexp(forward(MaskVec(np.log_pi, i), As, lls, 1)).lg
        ZA(i, j, k) ==
            logsumexp(forward(np.log_pi,
                              [u \in 1 .. T |-> IF u = k THEN MaskMat(np.log_A, i, j)
                                                ELSE np.log_A],
                              lls, 1)).lg
        Zeta(i, k) ==
            logsumexp(forward(np.log_pi, As,
                              [u \in 1 .. T |-> IF u = k THEN MaskVec(lls[u], i)
                                                ELSE lls[u]],
                              1)).lg
        stat(k) == statistic(ys[k]) \o <<QInt(1)>>
    IN  [E_init |-> [i \in 1 .. N |-> QDiv(Zpi(i), Z)],
         E_trans |-> [i \in 1 .. N |-> [j \in 1 .. N |->
                        QDiv(QSum([k \in 1 .. T |-> ZA(i, j, k)]), Z)]],
         E_obs_statistics |-> [i \in 1 .. N |-> [c \in 1 .. 3 |->
                        QDiv(QSum([k \in 1 .. T |-> QMul(stat(k)[c], Zeta(i, k))]), Z)]]]

(***************************************************************************)
(* EM (lines 95-126): fixed_point(EM_update, init_params).  x0 holds       *)
(* init_params = [pi, A, thetas].  The first update is followed call by    *)
(* call; it never returns (line 110), so the loop of fixed_point is not    *)
(* reached.                                                                *)
(***************************************************************************)
Mus == {QInt(0), QInt(1)}
Sigmas == {QInt(-1), QInt(0), Q(1, 4)}

InitEM ==
    /\ pc = "EM"
    /\ py = 2
    /\ obs \in {"Gaussian", "NormalInverseWishart"}
    /\ errstate \in {"warn", "raise"}
    /\ x0 \in [pi : Dists, A : [1 .. N -> Dists],
               thetas : [1 .. N -> [mu : Mus, Sigma : Sigmas]]]
    /\ data \in DataUpTo(MaxTEM, Ys)
    /\ etas = <<>>
    /\ expected_stats = NoValue
    /\ f = NoValue /\ x1 = NoValue /\ hist = <<>>
    /\ err = "" /\ log = <<>>
    /\ NoCall /\ NoHMM

\* The theta that map(obs_natparam, thetas) is working on (line 104).
Theta == x0.thetas[Len(etas) + 1]

\* Line 126, line 14, line 97 and lines 103-104 up to the call of map:
\* EM_update(init_params) enters E_step, which takes the logs of pi and A.
EMCall ==
    /\ pc = "EM"
    /\ pc' = "eta_outer"
    /\ log' = Append(log, "EM_update")
    /\ UNCHANGED <<py, err, data, callVars, fpVars, emVars, hmmVars>>

\* Line 101 with the first call of obs.eta tried again after an error.
ObsEtaOuter_retry ==
    /\ pc = "eta_outer"
    /\ log' = Append(log, "obs.eta")
    /\ IF Raised(obs_eta(Theta)) /\ Len(log) < 4
       THEN pc' = "eta_outer" /\ err' = err
       ELSE IF Raised(obs_eta(Theta))
       THEN pc' = "raised" /\ err' = obs_eta(Theta).raise
       ELSE pc' = "eta_inner" /\ err' = err
    /\ UNCHANGED <<py, data, callVars, fpVars, emVars, hmmVars>>

\* Line 101, left operand: obs.eta(theta).
ObsEtaOuter ==
    /\ pc = "eta_outer"
    /\ log' = Append(log, "obs.eta")
    /\ IF Raised(obs_eta(Theta))
       THEN pc' = "raised" /\ err' = obs_eta(Theta).raise
       ELSE pc' = "eta_inner" /\ err' = err
    /\ UNCHANGED <<py, data, callVars, fpVars, emVars, hmmVars>>

\* Line 101, the argument of obs.logZ: obs.eta(theta) once more.
ObsEtaInner ==
    /\ pc = "eta_inner"
    /\ log' = Append(log, "obs.eta")
    /\ IF Raised(obs_eta(Theta))
       THEN pc' = "raised" /\ err' = obs_eta(Theta).raise
       ELSE pc' = "logZ" /\ err' = err
    /\ UNCHANGED <<py, data, callVars, fpVars, emVars, hmmVars>>

\* Line 101: obs.logZ(...), and the natural parameter eta + (-logZ,) of this
\* theta; after the last theta, E_step goes on to line 105.
ObsLogZ ==
    /\ pc = "logZ"
    /\ log' = Append(log, "obs.logZ")
    /\ LET eta == obs_eta(Theta).val
           lz == obs_logZ(eta)
       IN  IF Raised(lz)
           THEN pc' = "raised" /\ err' = lz.raise /\ etas' = etas
           ELSE /\ etas' = Append(etas, eta \o <<QNeg(lz.val)>>)
                /\ pc' = IF Len(etas) + 1 = N THEN "grad" ELSE "eta_outer"
                /\ err' = err
    /\ UNCHANGED <<py, data, obs, errstate, expected_stats, callVars, fpVars, hmmVars>>

\* Line 105: E_step returns the gradient of hmm_log_partition_function at
\* the natural parameters (np.log(pi), np.log(A), etas).
Grad ==
    /\ pc = "grad"
    /\ log' = Append(log, "grad")
    /\ expected_stats' =
          grad_hmm_log_partition_function(
              [log_pi |-> LogOf(x0.pi),
               log_A |-> [i \in 1 .. N |-> LogOf(x0.A[i])],
               etas |-> etas],
              data)
    /\ pc' = "M_step"
    /\ UNCHANGED <<py, err, data, obs, errstate, etas, callVars, fpVars, hmmVars>>

\* M_step (lines 107-111): line 109 normalizes E_init and E_trans; line 110
\* calls max_likelihood, a name the file never binds: NameError.  The new pi
\* and A are locals, lost with the frame.
MStep ==
    /\ pc = "M_step"
    /\ log' = log \o <<"M_step", "normalize", "normalize">>
    /\ LET new_pi == normalize([vec |-> expected_stats.E_init])
           new_A == normalize([mat |-> expected_stats.E_trans])
       IN  /\ pc' = "raised"
           /\ err' = "NameError"
    /\ UNCHANGED <<py, data, callVars, fpVars, emVars, hmmVars>>

NextEM == EMCall \/ ObsEtaOuter \/ ObsEtaInner \/ ObsLogZ \/ Grad \/ MStep

SpecEM == InitEM /\ [][NextEM]_vars

\* A valid parameter tuple: pi and the rows of A are distributions (as Init
\* draws them) and every covariance is positive.
ValidParams(p) == \A i \in 1 .. N : QPos(p.thetas[i].Sigma)

\* C3: with valid parameters, non-empty data and the Gaussian family, every EM
\* iteration completes without raising and yields a parameter tuple (pi, A,
\* thetas) of the shape of init_params, and EM returns such a tuple.
C3_Original ==
    (obs = "Gaussian" /\ ValidParams(x0) /\ data # <<>>) =>
        /\ pc # "raised"
        /\ pc = "returned" =>
              (DOMAIN ret = DOMAIN x0 /\ DOMAIN ret.pi = DOMAIN x0.pi
               /\ DOMAIN ret.A = DOMAIN x0.A /\ DOMAIN ret.thetas = DOMAIN x0.thetas)

\* The posterior distribution of the first hidden state z_1, the state that
\* emits the first observation, in the HMM whose first state is drawn from pi.
PosteriorFirst(np, ys) ==
    LET p0 == [i \in 1 .. N |-> np.log_pi[i].lg]
        tr == [i \in 1 .. N |-> [j \in 1 .. N |-> np.log_A[i][j].lg]]
        w == [k \in DOMAIN ys |->
                 LET ll == log_likelihoods(ys[k], np.etas)
                 IN  [i \in 1 .. N |-> ll[i].lg]]
        paths == [1 .. Len(ys) -> 1 .. N]
        through(i) == SumOver({z \in paths : z[1] = i}, p0, tr, w, QInt(0))
    IN  [i \in 1 .. N |-> QDiv(through(i), SumOver(paths, p0, tr, w, QInt(0)))]

\* C5: for valid parameters and every data sequence, E_init, the first
\* component of what E_step returns, sums to 1 and is the posterior distribution
\* of the first hidden state, the state that emits the first observation.
C5_Original ==
    (pc = "M_step" /\ ValidParams(x0) /\ data # <<>>) =>
        /\ QSum(expected_stats.E_init) = QInt(1)
        /\ expected_stats.E_init =
              PosteriorFirst([log_pi |-> LogOf(x0.pi),
                              log_A |-> [i \in 1 .. N |-> LogOf(x0.A[i])],
                              etas |-> etas],
                             data)

\* The call of obs.eta or obs.logZ that E_step is about to make raises.
ObsCallRaises ==
    \/ pc \in {"eta_outer", "eta_inner"} /\ Raised(obs_eta(Theta))
    \/ pc = "logZ" /\ Raised(obs_logZ(obs_eta(Theta).val))
ObsCallError ==
    IF pc = "logZ" THEN obs_logZ(obs_eta(Theta).val).raise ELSE obs_eta(Theta).raise

\* C8: when obs.eta or obs.logZ raises during an E_step of EM, that error
\* reaches the caller of EM unchanged: the call is made once and not again, no
\* M_step and no further iteration follows, and EM returns no parameter tuple.
C8_Propagation ==
    /\ [][ObsCallRaises =>
            /\ pc' = "raised"
            /\ err' = ObsCallError
            /\ Len(log') = Len(log) + 1
            /\ UNCHANGED <<ret, x0, x1, etas, expected_stats>>]_vars
    /\ [][pc # "raised"]_vars
    /\ [](pc = "raised" =>
            /\ ret = NoValue
            /\ x1 = NoValue
            /\ (err # "NameError" =>
                  /\ \A i \in DOMAIN log : log[i] \notin {"M_step", "normalize", "grad"}
                  /\ Cardinality({i \in DOMAIN log : log[i] = "EM_update"}) = 1))

\* obs.logZ raised while E_step was building the natural parameter of the
\* second state, and the error reached the caller of EM.
C8_Witness ==
    /\ pc = "raised"
    /\ err = "FloatingPointError"
    /\ Len(etas) = 1
    /\ log[Len(log)] = "obs.logZ"
====
